---- MODULE Spec2Model ----
(***************************************************************************)
(* Model of the messaging endpoints of the patient portal (src/app1.py):   *)
(* get_conversations, get_messages and send_message over the MongoDB       *)
(* collections `conversations` and `messages`, as seeded by init_db.       *)
(*                                                                         *)
(* Every handler runs in its own request thread. A step of a handler is    *)
(* one call on the messages collection together with the code around it;   *)
(* the steps of different requests interleave. send_message makes one such *)
(* call, get_messages two, get_conversations two for each conversation.    *)
(***************************************************************************)
EXTENDS Integers, Sequences, FiniteSets, TLC

\* ---------------------------------------------------------------- bounds
\* Number of requests the server accepts in a run.
MaxCalls == 3
\* Last value of the millisecond clock behind datetime.utcnow().
MaxTime == 3
\* Number of request threads served at the same time.
NumReqs == 2

Reqs == 1..NumReqs

\* ------------------------------------------------------------- the data
\* Python's None, for a missing JSON field or a session without patient_id.
None == "None"

\* str(_id) of the documents of the patients collection: "p1" is the patient
\* init_db inserts, "p2" another patient who can log in.
Patients == {"p1", "p2"}

\* What session.get('patient_id') can be for a caller.
Sessions == Patients \cup {None}

\* The clock values init_db reads: the two sample messages are dated
\* utcnow() - 2h and utcnow() - 1h, the conversations utcnow().
SeedTime == 2

\* The conversations collection after init_db, in insertion order.
conversations ==
    << [_id |-> "c1", participants |-> <<"p1", "nurse_sarah">>,
        title |-> "Nurse Sarah", created_at |-> SeedTime],
       [_id |-> "c2", participants |-> <<"p1", "dr_johnson">>,
        title |-> "Dr. Johnson", created_at |-> SeedTime] >>

ConvIds == {conversations[i]._id : i \in 1..Len(conversations)}

\* The participants of the conversation with _id c (none when there is none).
Participants(c) ==
    {conversations[i].participants[k] :
        i \in {j \in 1..Len(conversations) : conversations[j]._id = c},
        k \in 1..2}

\* The values a caller can put in the URL or in the JSON field
\* conversation_id: an existing id, an id of no conversation, or nothing.
ConvInputs == ConvIds \cup {"c9", None}

\* The values of the URL segment <conversation_id> of get_messages: the
\* conversations that exist.
UrlInputs == ConvIds

\* The values of the JSON field message.
MessageInputs == {"hi", "", None}

\* A check for None instead of `not x`.
Falsy_NoneOnly(x) == x = None

\* Python truthiness of a JSON string-or-null value: `not x`.
Falsy(x) == x = None \/ x = ""

\* The value of the field `read`: Absent when the document has no such field.
Absent == "absent"

\* The messages collection after init_db: no `read` field is written.
SeedMessages ==
    << [conversation_id |-> "c1", sender_id |-> "nurse_sarah",
        message |-> "Your therapy session has been rescheduled to 11 AM today.",
        timestamp |-> SeedTime - 2, read |-> Absent],
       [conversation_id |-> "c1", sender_id |-> "p1",
        message |-> "Thank you for letting me know. I'll be ready.",
        timestamp |-> SeedTime - 1, read |-> Absent] >>

\* ---------------------------------------------------------------- state
VARIABLES
    messages,   \* the messages collection, in insertion order (index = _id)
    now,        \* the value datetime.utcnow() returned last
    req,        \* per request thread: where its handler is, and its locals
    response,   \* the answer the last step returned to a caller, if any
    calls,      \* the number of requests accepted so far
    history     \* what has happened, for the properties that span several
                \* requests; recorded only when history.on

vars == <<messages, now, req, response, calls, history>>

\* A thread between two requests: no local is live.
Idle ==
    [pc |-> "idle", user |-> None, conversation_id |-> None,
     todo |-> <<>>, last_message |-> 0, result |-> <<>>,
     limit |-> 0, modified |-> {}]

\* The server hands a new request to the first thread that serves none.
Free(r) ==
    /\ req[r].pc = "idle"
    /\ \A q \in Reqs : q < r => req[q].pc # "idle"

\* Thread r accepts a request.
Accept(r) ==
    /\ Free(r)
    /\ calls < MaxCalls
    /\ calls' = calls + 1

\* The value of `response` after a step that returns nothing to a caller.
NoResponse ==
    [handler |-> "none", user |-> None, conversation_id |-> None,
     status |-> 0, body |-> <<>>]

\* What jsonify(...) and the status code of a return statement give the
\* caller u of `handler` (on conversation c, for get_messages).
Response(handler, u, c, status, body) ==
    [handler |-> handler, user |-> u, conversation_id |-> c,
     status |-> status, body |-> body]

\* ------------------------------------------------------ database queries
\* UnreadFilter without the "sender_id": {"$ne": v} clause.
UnreadFilter_AnySender(m, c, v) ==
    /\ m.conversation_id = c
    /\ m.read = "False"

\* The filter {"conversation_id": c, "sender_id": {"$ne": v}, "read": False}
\* on one document. A document without the field `read` does not match.
UnreadFilter(m, c, v) ==
    /\ m.conversation_id = c
    /\ m.sender_id # v
    /\ m.read = "False"

\* messages.count_documents(<unread filter>)
unread_count(msgs, c, v) ==
    Cardinality({i \in 1..Len(msgs) : UnreadFilter(msgs[i], c, v)})

\* update_many that toggles the flag of every message of the conversation
\* not sent by v.
update_many_Toggle(msgs, c, v) ==
    [i \in 1..Len(msgs) |->
        IF msgs[i].conversation_id = c /\ msgs[i].sender_id # v /\ msgs[i].read # Absent
        THEN [msgs[i] EXCEPT !.read = IF @ = "False" THEN "True" ELSE "False"]
        ELSE msgs[i]]

\* messages.update_many(<unread filter>, {"$set": {"read": True}})
update_many(msgs, c, v) ==
    [i \in 1..Len(msgs) |->
        IF UnreadFilter(msgs[i], c, v)
        THEN [msgs[i] EXCEPT !.read = "True"]
        ELSE msgs[i]]

\* A write of update_many that is acknowledged without changing the document.
set_read_Lost(msgs, i) == msgs

\* The write update_many makes on one matching document:
\* {"$set": {"read": True}}. MongoDB writes a single document atomically.
set_read(msgs, i) == [msgs EXCEPT ![i].read = "True"]

\* The _ids of the documents messages.find({"conversation_id": c}) matches.
FindMessages(msgs, c) == {i \in 1..Len(msgs) : msgs[i].conversation_id = c}

\* The orders in which .sort("timestamp", 1) can return the documents S:
\* ascending by timestamp; MongoDB fixes no order among equal sort keys.
RECURSIVE SortedByTimestamp(_, _)
SortedByTimestamp(msgs, S) ==
    IF S = {} THEN {<<>>}
    ELSE UNION {{<<i>> \o o : o \in SortedByTimestamp(msgs, S \ {i})} :
                  i \in {i \in S : \A j \in S : msgs[i].timestamp <= msgs[j].timestamp}}

\* The documents find_one({"conversation_id": c}, sort=[("timestamp", -1)])
\* can return: one with the greatest timestamp, 0 (None) when there is none.
FindLast(msgs, c) ==
    IF FindMessages(msgs, c) = {} THEN {0}
    ELSE {i \in FindMessages(msgs, c) :
            \A j \in FindMessages(msgs, c) : msgs[j].timestamp <= msgs[i].timestamp}

\* conversations.find({}): every conversation.
FindConversations_All(u) == conversations

\* conversations.find({"participants": u}): the conversations whose
\* participants array contains u, in the collection's order.
FindConversations(u) ==
    SelectSeq(conversations,
              LAMBDA conv : \E k \in 1..Len(conv.participants) : conv.participants[k] = u)

\* ------------------------------------------------------------ the handlers
\* The display name get_messages gives a sender.
SenderName(sender_id, u) ==
    IF sender_id = u THEN "You"
    ELSE IF sender_id \in {"nurse_sarah"} THEN "Nurse" ELSE "Doctor"

\* One element of the list get_messages returns.
MessageView(msgs, i, u) ==
    [id |-> i,
     sender |-> SenderName(msgs[i].sender_id, u),
     message |-> msgs[i].message,
     timestamp |-> msgs[i].timestamp,
     is_own |-> (msgs[i].sender_id = u)]

\* The document without the field `read`, as send_message of src/app.py builds it.
NewMessage_NoRead(c, u, m, t) ==
    [conversation_id |-> c, sender_id |-> u, message |-> m,
     timestamp |-> t, read |-> Absent]

\* The document send_message builds before inserting it.
NewMessage(c, u, m, t) ==
    [conversation_id |-> c, sender_id |-> u, message |-> m,
     timestamp |-> t, read |-> "False"]

\* One element of the list get_conversations returns.
Summary(conv, msgs, last, count) ==
    [id |-> conv._id,
     title |-> conv.title,
     last_message |-> IF last # 0 THEN msgs[last].message ELSE "No messages yet",
     timestamp |-> IF last # 0 THEN msgs[last].timestamp ELSE conv.created_at,
     unread_count |-> count]

\* history.opened: the pairs <<c, v>> such that participant v has completed
\* a get_messages call on conversation c and no message was inserted into c
\* since. history.since[r]: the pairs that were in history.opened when thread
\* r started its get_conversations call and have stayed there.
NoHistory(on) == [on |-> on, opened |-> {}, since |-> [r \in Reqs |-> {}]]

NoteOpened(c, v) ==
    IF history.on /\ v \in Participants(c)
    THEN [history EXCEPT !.opened = @ \cup {<<c, v>>}]
    ELSE history

NoteInserted(c) ==
    IF history.on
    THEN [history EXCEPT !.opened = {p \in @ : p[1] # c},
                         !.since = [r \in Reqs |-> {p \in @[r] : p[1] # c}]]
    ELSE history

NoteSummaryStarted(r) ==
    IF history.on THEN [history EXCEPT !.since[r] = history.opened] ELSE history

NoteSummaryEnded(r) ==
    IF history.on THEN [history EXCEPT !.since[r] = {}] ELSE history

InitState ==
    /\ messages = SeedMessages
    /\ now = SeedTime
    /\ req = [r \in Reqs |-> Idle]
    /\ response = NoResponse
    /\ calls = 0

Init ==
    /\ InitState
    /\ history = NoHistory(FALSE)

InitRecording ==
    /\ InitState
    /\ history = NoHistory(TRUE)

\* The values datetime.utcnow() can return: the clock never goes back.
ClockReadings == now..MaxTime

\* send_message: the session and field checks, the document built with the
\* clock's value, messages.insert_one(new_message) and the response.
send_message(r, u, c, m) ==
    /\ Accept(r)
    /\ IF u = None
       THEN /\ response' = Response("send_message", u, None, 401, <<>>)
            /\ UNCHANGED <<messages, now, history>>
       ELSE IF Falsy(c) \/ Falsy(m)
       THEN /\ response' = Response("send_message", u, None, 400, <<>>)
            /\ UNCHANGED <<messages, now, history>>
       ELSE /\ \E t \in ClockReadings :
                 /\ messages' = Append(messages, NewMessage(c, u, m, t))
                 /\ now' = t
            /\ response' = Response("send_message", u, c, 200, <<>>)
            /\ history' = NoteInserted(c)
    /\ UNCHANGED req

\* get_messages up to the find: the session check and the mark-as-read
\* update_many.
get_messages(r, u, c) ==
    /\ Accept(r)
    /\ IF u = None
       THEN /\ response' = Response("get_messages", u, None, 401, <<>>)
            /\ UNCHANGED <<messages, req>>
       ELSE /\ messages' = update_many(messages, c, u)
            /\ req' = [req EXCEPT ![r] =
                 [Idle EXCEPT !.pc = "find", !.user = u, !.conversation_id = c]]
            /\ response' = NoResponse
    /\ UNCHANGED <<now, history>>

\* get_messages up to the update_many, as the server runs it document by
\* document: the session check and the start of the scan. `limit` is the
\* number of documents in the collection when the scan starts, `modified`
\* the documents the call counts in UpdateResult.modified_count.
update_many_begin(r, u, c) ==
    /\ Accept(r)
    /\ IF u = None
       THEN /\ response' = Response("get_messages", u, None, 401, <<>>)
            /\ UNCHANGED req
       ELSE /\ req' = [req EXCEPT ![r] =
                 [Idle EXCEPT !.pc = "update", !.user = u, !.conversation_id = c,
                              !.limit = Len(messages)]]
            /\ response' = NoResponse
    /\ UNCHANGED <<messages, now, history>>

\* update_many, one document: a document that matches the filter now is
\* written and counted. The scan visits the documents in no promised order.
update_many_document(r) ==
    /\ req[r].pc = "update"
    /\ \E i \in 1..Len(messages) :
         /\ UnreadFilter(messages[i], req[r].conversation_id, req[r].user)
         /\ messages' = set_read(messages, i)
         /\ req' = [req EXCEPT ![r].modified = @ \cup {i}]
    /\ response' = NoResponse
    /\ UNCHANGED <<now, calls, history>>

\* update_many returns: every matching document that was in the collection
\* when the scan started has been written; one inserted since may have been
\* passed over. get_messages drops the UpdateResult.
update_many_end(r) ==
    /\ req[r].pc = "update"
    /\ \A i \in 1..req[r].limit :
         ~UnreadFilter(messages[i], req[r].conversation_id, req[r].user)
    /\ req' = [req EXCEPT ![r].pc = "find", ![r].limit = 0, ![r].modified = {}]
    /\ response' = NoResponse
    /\ UNCHANGED <<messages, now, calls, history>>

\* get_messages: the sorted find, the result list and the response.
find_messages(r) ==
    /\ req[r].pc = "find"
    /\ \E o \in SortedByTimestamp(messages, FindMessages(messages, req[r].conversation_id)) :
         response' = Response("get_messages", req[r].user, req[r].conversation_id, 200,
                              [k \in 1..Len(o) |-> MessageView(messages, o[k], req[r].user)])
    /\ req' = [req EXCEPT ![r] = Idle]
    /\ history' = NoteOpened(req[r].conversation_id, req[r].user)
    /\ UNCHANGED <<messages, now, calls>>

\* get_conversations up to the loop body: the session check and the find of
\* the caller's conversations (the loop over no conversation ends at once).
get_conversations(r, u) ==
    /\ Accept(r)
    /\ IF u = None
       THEN /\ response' = Response("get_conversations", u, None, 401, <<>>)
            /\ UNCHANGED <<req, history>>
       ELSE IF FindConversations(u) = <<>>
       THEN /\ response' = Response("get_conversations", u, None, 200, <<>>)
            /\ UNCHANGED <<req, history>>
       ELSE /\ req' = [req EXCEPT ![r] =
                 [Idle EXCEPT !.pc = "last", !.user = u, !.todo = FindConversations(u)]]
            /\ response' = NoResponse
            /\ history' = NoteSummaryStarted(r)
    /\ UNCHANGED <<messages, now>>

\* get_conversations, loop body: find_one of the conversation's last message.
find_last(r) ==
    /\ req[r].pc = "last"
    /\ \E i \in FindLast(messages, Head(req[r].todo)._id) :
         req' = [req EXCEPT ![r].pc = "count", ![r].last_message = i]
    /\ response' = NoResponse
    /\ UNCHANGED <<messages, now, calls, history>>

\* get_conversations, loop body: count_documents of the unread messages and
\* result.append; after the last conversation, the response.
count_unread(r) ==
    /\ req[r].pc = "count"
    /\ LET conv == Head(req[r].todo)
           entry == Summary(conv, messages, req[r].last_message,
                            unread_count(messages, conv._id, req[r].user))
       IN IF Tail(req[r].todo) = <<>>
          THEN /\ response' = Response("get_conversations", req[r].user, None, 200,
                                       Append(req[r].result, entry))
               /\ req' = [req EXCEPT ![r] = Idle]
               /\ history' = NoteSummaryEnded(r)
          ELSE /\ req' = [req EXCEPT ![r].result = Append(@, entry),
                                     ![r].todo = Tail(@),
                                     ![r].last_message = 0,
                                     ![r].pc = "last"]
               /\ response' = NoResponse
               /\ UNCHANGED history
    /\ UNCHANGED <<messages, now, calls>>

Next ==
    \/ \E r \in Reqs, u \in Sessions, c \in ConvInputs, m \in MessageInputs :
          send_message(r, u, c, m)
    \/ \E r \in Reqs, u \in Sessions, c \in UrlInputs : get_messages(r, u, c)
    \/ \E r \in Reqs : find_messages(r)
    \/ \E r \in Reqs, u \in Sessions : get_conversations(r, u)
    \/ \E r \in Reqs : find_last(r)
    \/ \E r \in Reqs : count_unread(r)

Spec == Init /\ [][Next]_vars

\* The same program, with the history recorded.
SpecRecording == InitRecording /\ [][Next]_vars

\* The two handlers that write the messages collection, with the update_many
\* of get_messages run as the server runs it: one atomic write for each
\* matching document, other requests' steps in between. get_conversations
\* only reads the collection and is left to Next.
NextBulk ==
    \/ \E r \in Reqs, u \in Sessions, c \in ConvInputs, m \in MessageInputs :
          send_message(r, u, c, m)
    \/ \E r \in Reqs, u \in Sessions, c \in UrlInputs : update_many_begin(r, u, c)
    \/ \E r \in Reqs : update_many_document(r)
    \/ \E r \in Reqs : update_many_end(r)
    \/ \E r \in Reqs : find_messages(r)

SpecBulk == Init /\ [][NextBulk]_vars

\* ------------------------------------------------------------ properties

\* C1: a successful send_message into conversation C raises the unread count
\* get_conversations computes for a participant V of C by exactly 1 when the
\* sender is not V, and leaves it unchanged when the sender is V (and leaves
\* the counts of every other conversation unchanged).
C1_AppendCountsUnread ==
    [][response'.handler = "send_message" /\ response'.status = 200 =>
         /\ \E r \in Reqs, m \in MessageInputs :
               send_message(r, response'.user, response'.conversation_id, m)
         /\ \A v \in Patients, c \in ConvIds :
               v \in Participants(c) =>
                 unread_count(messages', c, v) =
                   unread_count(messages, c, v)
                   + (IF response'.conversation_id = c /\ response'.user # v
                      THEN 1 ELSE 0)]_vars

\* C1 witness: p2 has just sent into c1 and p1's count for c1 is 1.
C1_Witness ==
    /\ response.handler = "send_message"
    /\ response.status = 200
    /\ response.user = "p2"
    /\ response.conversation_id = "c1"
    /\ unread_count(messages, "c1", "p1") = 1

\* C2: the mark-as-read step is idempotent: on the store a mark-as-read step
\* of get_messages leaves, a second run for the same conversation and viewer
\* matches no message and leaves the store as it is.
C2_MarkReadIdempotent ==
    [][\A r \in Reqs :
         req'[r].pc = "find" =>
           \A u \in Patients, c \in UrlInputs :
              get_messages(r, u, c) =>
                /\ unread_count(messages', c, u) = 0
                /\ update_many(messages', c, u) = messages']_vars

\* C2 witness: two mark-as-read steps for the same viewer and conversation
\* have run, and a message was marked.
C2_Witness ==
    /\ \A r \in Reqs : req[r].pc = "find" /\ req[r].user = "p1"
                       /\ req[r].conversation_id = "c1"
    /\ \E i \in 1..Len(messages) :
          messages[i].conversation_id = "c1" /\ messages[i].read = "True"

\* C3: a read flag never changes except from false to true, and it changes
\* so only in the mark-as-read step of a get_messages call on the message's
\* conversation by a viewer who is not the message's sender.
C3_ReadMonotone ==
    [][/\ Len(messages') >= Len(messages)
       /\ \A i \in 1..Len(messages) :
            messages'[i].read # messages[i].read =>
              /\ messages[i].read = "False"
              /\ messages'[i].read = "True"
              /\ \E r \in Reqs, u \in Patients :
                    /\ get_messages(r, u, messages[i].conversation_id)
                    /\ u # messages[i].sender_id]_vars

\* C3 witness: a message has been marked read.
C3_Witness ==
    \E i \in 1..Len(messages) : messages[i].read = "True"

\* C4: every stored message, seeded or sent, has a read flag (false when it
\* was created), so that a message not sent by p1 and never opened by p1
\* counts as unread for p1.
C4_CreatedUnread ==
    \A i \in 1..Len(messages) : messages[i].read \in {"False", "True"}

\* C5: when participant V has completed get_messages on conversation C, a
\* get_conversations call by V that started afterwards, no message having
\* been inserted into C since the completion, reports unread_count = 0 for C.
C5_SummaryAfterOpenIsZero ==
    [][\A r \in Reqs :
         count_unread(r) =>
           LET c == Head(req[r].todo)._id
               entry == IF Tail(req[r].todo) = <<>>
                        THEN response'.body[Len(response'.body)]
                        ELSE req'[r].result[Len(req'[r].result)]
           IN <<c, req[r].user>> \in history.since[r] => entry.unread_count = 0]_vars

\* C6: get_messages by a logged-in caller who is not a participant of the
\* conversation answers 403 with no message, and changes no read flag.
C6_NonParticipantForbidden ==
    /\ [](response.handler = "get_messages"
          /\ response.user \in Patients
          /\ response.conversation_id \in ConvIds
          /\ response.user \notin Participants(response.conversation_id)
          => response.status = 403 /\ response.body = <<>>)
    /\ [][\A r \in Reqs, u \in Patients, c \in ConvIds :
            get_messages(r, u, c) /\ u \notin Participants(c)
            => messages' = messages]_vars

\* C7: every stored message references an existing conversation whose
\* participants contain its sender.
C7_StoredMessagesValid ==
    \A i \in 1..Len(messages) :
       /\ messages[i].conversation_id \in ConvIds
       /\ messages[i].sender_id \in Participants(messages[i].conversation_id)

\* C8: send_message by a logged-in caller with an empty or missing message,
\* or a missing conversation_id, answers 400 and inserts nothing; no stored
\* message has an empty body.
C8_EmptyBodyRejected ==
    /\ [][response'.handler = "send_message" /\ response'.user \in Patients =>
            \A r \in Reqs, c \in ConvInputs, m \in MessageInputs :
               (c = None \/ m = None \/ m = "")
               /\ send_message(r, response'.user, c, m)
               => /\ response'.status = 400
                  /\ messages' = messages]_vars
    /\ [](\A i \in 1..Len(messages) : messages[i].message \notin {"", None})

\* C8 witness: a send_message call was answered 400.
C8_Witness ==
    /\ response.handler = "send_message"
    /\ response.status = 400
    /\ response.user \in Patients

\* C9: the list get_messages returns holds exactly the messages of the
\* conversation, in non-decreasing timestamp order, equal timestamps in
\* insertion order.
C9_OrderedWithStableTies ==
    response.handler = "get_messages" /\ response.status = 200 =>
      /\ {response.body[k].id : k \in 1..Len(response.body)}
           = FindMessages(messages, response.conversation_id)
      /\ Len(response.body)
           = Cardinality(FindMessages(messages, response.conversation_id))
      /\ \A j, k \in 1..Len(response.body) :
            j < k =>
              \/ response.body[j].timestamp < response.body[k].timestamp
              \/ /\ response.body[j].timestamp = response.body[k].timestamp
                 /\ response.body[j].id < response.body[k].id

\* C10: get_conversations answers a logged-in caller with one summary for
\* each conversation the caller participates in and with no other summary;
\* so does the list it has built so far.
C10_OnlyOwnConversations ==
    /\ response.handler = "get_conversations" /\ response.status = 200 =>
         /\ {response.body[k].id : k \in 1..Len(response.body)}
              = {c \in ConvIds : response.user \in Participants(c)}
         /\ \A j, k \in 1..Len(response.body) :
               j # k => response.body[j].id # response.body[k].id
    /\ \A r \in Reqs :
         req[r].pc \in {"last", "count"} =>
           /\ \A k \in 1..Len(req[r].result) :
                 req[r].user \in Participants(req[r].result[k].id)
           /\ \A k \in 1..Len(req[r].todo) :
                 req[r].user \in Participants(req[r].todo[k]._id)

\* C10 witness: p2, who participates in no conversation, is answered with no
\* summary after sending a message into c1; p1 is answered with two.
C10_Witness ==
    /\ response.handler = "get_conversations"
    /\ response.status = 200
    /\ \/ /\ response.user = "p2"
          /\ response.body = <<>>
          /\ \E i \in 1..Len(messages) :
                messages[i].sender_id = "p2" /\ messages[i].conversation_id = "c1"
       \/ /\ response.user = "p1"
          /\ Len(response.body) = 2

\* C11: the mark-as-read step of get_messages treats every message as a
\* whole, whatever send_message inserts while it runs: a message the step
\* counts as transitioned is one of the viewer's conversation, from another
\* sender, and read in the store; and a read flag changes only from False to
\* True, one document in a step, by a mark-as-read step that counts that
\* document, the rest of the store staying as it was.
C11_MarkReadAtomic ==
    /\ [](\A r \in Reqs : \A i \in req[r].modified :
             /\ i \in 1..Len(messages)
             /\ messages[i].conversation_id = req[r].conversation_id
             /\ messages[i].sender_id # req[r].user
             /\ messages[i].read = "True")
    /\ [][\A i \in 1..Len(messages) :
             messages'[i] # messages[i] =>
               /\ messages[i].read = "False"
               /\ messages'[i] = [messages[i] EXCEPT !.read = "True"]
               /\ \A j \in 1..Len(messages) : j # i => messages'[j] = messages[j]
               /\ Len(messages') = Len(messages)
               /\ \E r \in Reqs :
                     /\ req[r].pc = "update"
                     /\ i \notin req[r].modified
                     /\ req'[r].modified = req[r].modified \cup {i}
                     /\ \A q \in Reqs : q # r => req'[q] = req[q]]_vars

\* The update_many of a get_messages is ready to return; of two messages
\* inserted while it ran, it has counted and flipped one and passed over the
\* other, which is unread.
C11_Witness ==
    \E r \in Reqs :
        /\ req[r].pc = "update"
        /\ \A k \in 1..req[r].limit :
              ~UnreadFilter(messages[k], req[r].conversation_id, req[r].user)
        /\ \E i, j \in (req[r].limit + 1)..Len(messages) :
              /\ i \in req[r].modified
              /\ messages[i].read = "True"
              /\ j \notin req[r].modified
              /\ UnreadFilter(messages[j], req[r].conversation_id, req[r].user)

\* C12: get_messages is one operation of mark-read then list: when the list
\* is returned to viewer V, no message in it remains counted as unread for V,
\* that is, none sent by someone other than V has read = False in the store.
\* (A seeded message, which has no read field, is not counted as unread and
\* is not held against the claim here.)
C12_ListedMessagesAreRead ==
    (response.handler = "get_messages" /\ response.status = 200) =>
        \A k \in 1..Len(response.body) :
            ~response.body[k].is_own =>
                ~UnreadFilter(messages[response.body[k].id],
                              response.conversation_id, response.user)

\* The summaries get_conversations has built so far or has just returned.
Summaries ==
    UNION {{req[r].result[k] : k \in 1..Len(req[r].result)} : r \in Reqs}
    \cup (IF response.handler = "get_conversations" /\ response.status = 200
          THEN {response.body[k] : k \in 1..Len(response.body)}
          ELSE {})

\* C13: every summary of get_conversations is consistent in itself: one
\* whose last_message is "No messages yet" has unread_count 0, and one whose
\* unread_count is above 0 has for last_message the body of a stored message
\* of its conversation.
C13_SummaryConsistent ==
    \A e \in Summaries :
        /\ e.last_message = "No messages yet" => e.unread_count = 0
        /\ e.unread_count > 0 =>
              \E i \in 1..Len(messages) :
                 /\ messages[i].conversation_id = e.id
                 /\ messages[i].message = e.last_message

====
